---- MODULE Spec2Model ----
(***************************************************************************)
(* Model of the notification server of place_api (src/unnamed/part_000,    *)
(* lines 1-555: the live program; the rest of that file and src/index.js   *)
(* hold earlier versions of it).                                           *)
(*                                                                         *)
(* JavaScript values are modelled as strings; Undef stands for undefined   *)
(* (also: an absent field, null).  An object is a function from its keys   *)
(* to values.                                                              *)
(***************************************************************************)
EXTENDS Integers, Sequences, FiniteSets, TLC

VARIABLES
    users,              \* the Users collection: id -> [exists, fcmToken, name]
    notifications,      \* Users/{id}/Notifications: id -> (notification id -> record)
    userFollowersCache, \* the module-level cache object: user id -> follower count
    last,               \* what the last handled request or change event did
    rcIn,       \* reconciliation check: the raw `data` object handed in
    rcOnce,     \* its reconciliation (NoResult before it is computed)
    rcTwice,    \* the reconciliation of rcOnce (NoResult before)
    rcPhase,    \* 0: nothing applied, 1: applied once, 2: applied twice
    fdDoc,      \* asynchronous handlers: the document watched and how it started
    fdQueue,    \* the modified changes of that document not yet delivered
    fdTasks,    \* the callbacks started, in delivery order, each with its position
    fdOut,      \* the pushes sent and the records set, in the order they were made
    fdSubs,     \* the state of each of the five onSnapshot subscriptions
    fdLogged    \* the feeds whose failure an error callback of the program logged

sysVars == <<users, notifications, userFollowersCache, last>>

rcVars == <<rcIn, rcOnce, rcTwice, rcPhase>>

fdVars == <<fdDoc, fdQueue, fdTasks, fdOut, fdSubs, fdLogged>>

vars == <<users, notifications, userFollowersCache, last,
          rcIn, rcOnce, rcTwice, rcPhase,
          fdDoc, fdQueue, fdTasks, fdOut, fdSubs, fdLogged>>

(***************************************************************************)
(* JavaScript value helpers                                                *)
(***************************************************************************)
Undef == "<undefined>"

NoResult == [none |-> TRUE]

\* obj.key : Undef when the key is absent
Get(obj, key) == IF key \in DOMAIN obj THEN obj[key] ELSE Undef

\* truthiness of a string-or-undefined value
Truthy(v) == v # Undef /\ v # ""

\* v || ''
OrEmpty(v) == IF Truthy(v) THEN v ELSE ""

\* { ...base, ...over } : later keys win
Spread(base, over) ==
    [k \in (DOMAIN base) \cup (DOMAIN over) |->
        IF k \in DOMAIN over THEN over[k] ELSE base[k]]

(***************************************************************************)
(* Identifier reconciliation (sendAndLogNotification, lines 70-86)         *)
(***************************************************************************)
Kinds == <<"post", "place", "review", "comment">>

TypedKey(kind) ==
    CASE kind = "post" -> "postId"
      [] kind = "place" -> "placeId"
      [] kind = "review" -> "reviewId"
      [] kind = "comment" -> "commentId"

\* rawIds with the `|| ''` of lines 73-76 dropped
rawIdsKeepAbsent(data) ==
    [targetId   |-> OrEmpty(Get(data, "targetId")),
     targetType |-> OrEmpty(Get(data, "targetType")),
     postId     |-> Get(data, "postId"),
     placeId    |-> Get(data, "placeId"),
     reviewId   |-> Get(data, "reviewId"),
     commentId  |-> Get(data, "commentId")]

\* lines 71-76: every id present, or the empty string
rawIds(data) ==
    [targetId   |-> OrEmpty(Get(data, "targetId")),
     targetType |-> OrEmpty(Get(data, "targetType")),
     postId     |-> OrEmpty(Get(data, "postId")),
     placeId    |-> OrEmpty(Get(data, "placeId")),
     reviewId   |-> OrEmpty(Get(data, "reviewId")),
     commentId  |-> OrEmpty(Get(data, "commentId"))]

\* forwardFill with the `!reviewId` test of line 81 dropped
forwardFillOverwritesReview(t) ==
    [t EXCEPT
        !.postId    = IF t.targetType = "post" /\ @ = "" THEN t.targetId ELSE @,
        !.placeId   = IF t.targetType = "place" /\ @ = "" THEN t.targetId ELSE @,
        !.reviewId  = IF t.targetType = "review" THEN t.targetId ELSE @,
        !.commentId = IF t.targetType = "comment" /\ @ = "" THEN t.targetId ELSE @]

\* lines 79-82: a typed id that is empty takes targetId when targetType names it
forwardFill(t) ==
    [t EXCEPT
        !.postId    = IF t.targetType = "post" /\ @ = "" THEN t.targetId ELSE @,
        !.placeId   = IF t.targetType = "place" /\ @ = "" THEN t.targetId ELSE @,
        !.reviewId  = IF t.targetType = "review" /\ @ = "" THEN t.targetId ELSE @,
        !.commentId = IF t.targetType = "comment" /\ @ = "" THEN t.targetId ELSE @]

\* backFillPost with the assignment `targetType = 'post'` of line 85 dropped
backFillPostKeepsType(t) ==
    IF t.postId # "" /\ t.targetId = ""
    THEN [t EXCEPT !.targetId = t.postId]
    ELSE t

\* line 85
backFillPost(t) ==
    IF t.postId # "" /\ t.targetId = ""
    THEN [t EXCEPT !.targetId = t.postId, !.targetType = "post"]
    ELSE t

\* line 86
backFillPlace(t) ==
    IF t.placeId # "" /\ t.targetId = ""
    THEN [t EXCEPT !.targetId = t.placeId, !.targetType = "place"]
    ELSE t

\* backFill with the statement of line 85 left out
backFillPlaceOnly(t) == backFillPlace(t)

\* lines 85-86, in the order of the two statements
backFill(t) == backFillPlace(backFillPost(t))

reconcile(data) == backFill(forwardFill(rawIds(data)))

(***************************************************************************)
(* The world of the model: users, their profiles, push tokens              *)
(***************************************************************************)
UserIds == {"u1", "u2", "u3"}

\* the push token a client registers (u1 starts with "tokA" in the store)
NewTokens == {"tokB"}

\* the `name` and `avatar` fields of a user's profile; reviews and comments
\* carry the same values as userName and userAvatar
ProfileName(u) ==
    CASE u = "u1" -> "alice"
      [] u = "u2" -> "bob"
      [] OTHER -> Undef

ProfileAvatar(u) ==
    CASE u = "u1" -> "https://cdn.example/alice.png"
      [] u = "u3" -> "avatars/u3.png"
      [] OTHER -> Undef

\* String.prototype.startsWith('http') on the strings of the model
StartsWithHttp(str) == str \in {"https://cdn.example/alice.png", "http://img/x.png"}

\* String.prototype.charAt(0) on the names of the model
CharAt0(str) ==
    CASE str = "alice" -> "a"
      [] str = "bob" -> "b"
      [] str = "User" -> "U"
      [] str = "Test User" -> "T"
      [] str = "U" -> "U"
      [] OTHER -> ""

\* String.prototype.toUpperCase on one character
ToUpperCase(c) ==
    CASE c = "a" -> "A"
      [] c = "b" -> "B"
      [] OTHER -> c

\* line 94: the template string around encodeURIComponent(initials)
InitialsAvatarUrl(initials) ==
    CASE initials = "A" -> "https://ui-avatars.com/api/?name=A&background=1C59A4&color=fff&size=200&bold=true"
      [] initials = "B" -> "https://ui-avatars.com/api/?name=B&background=1C59A4&color=fff&size=200&bold=true"
      [] initials = "T" -> "https://ui-avatars.com/api/?name=T&background=1C59A4&color=fff&size=200&bold=true"
      [] initials = "U" -> "https://ui-avatars.com/api/?name=U&background=1C59A4&color=fff&size=200&bold=true"
      [] OTHER -> "https://ui-avatars.com/api/?name=&background=1C59A4&color=fff&size=200&bold=true"

Null == "<null>"

(***************************************************************************)
(* UTILS (lines 26-53)                                                     *)
(***************************************************************************)
\* the values of the model are strings, null and undefined
convertToStringValues(obj) ==
    [k \in DOMAIN obj |-> IF obj[k] = Null \/ obj[k] = Undef THEN "" ELSE obj[k]]

removeUndefined(obj) ==
    [k \in {x \in DOMAIN obj : obj[x] # Undef /\ obj[x] # Null} |-> obj[k]]

(***************************************************************************)
(* CORE: sendAndLogNotification (lines 58-186)                             *)
(*                                                                         *)
(* A call is [recipientId, title, body, type, data].  What the             *)
(* collaborators do during the call is its environment env:                *)
(*   fault : "none", or the store call that throws ("read": the get of     *)
(*           the user document, "write": the set of the record)            *)
(*   push  : what admin.messaging().send does when it is called: "ok",     *)
(*           "error" (a delivery error), "unregistered" (the error         *)
(*           messaging/registration-token-not-registered)                  *)
(*   msgId : the message id a successful send returns                      *)
(*   nid   : the notification id Date.now()/Math.random() produce: one of  *)
(*           the recipient's existing ids when nid names one, else new     *)
(***************************************************************************)
MsgIds == {"msg1", "msg2"}

NotifIdPool == <<"n1", "n2", "n3", "n4", "n5", "n6">>

\* the first id of the pool that the log does not hold
FreshId(log) ==
    NotifIdPool[CHOOSE i \in DOMAIN NotifIdPool :
        /\ NotifIdPool[i] \notin DOMAIN log
        /\ \A j \in 1..(i - 1) : NotifIdPool[j] \in DOMAIN log]

\* line 98
notificationId(log, env) == IF env.nid \in DOMAIN log THEN env.nid ELSE FreshId(log)

\* lines 67-68, 88-96
avatarLogic(data) ==
    LET senderAvatar == OrEmpty(Get(data, "senderAvatar"))
        senderName == OrEmpty(Get(data, "senderName"))
    IN  IF senderAvatar # "" /\ StartsWithHttp(senderAvatar) THEN senderAvatar
        ELSE IF senderAvatar = ""
             THEN InitialsAvatarUrl(ToUpperCase(CharAt0(IF senderName # "" THEN senderName ELSE "U")))
             ELSE senderAvatar

\* lines 105-127: the token, the notification and the data of the message
\* (the android and apns parts are constants)
fcmMessage(fcmToken, call, nid) ==
    LET data == call.data
        ids == reconcile(data)
        senderName == OrEmpty(Get(data, "senderName"))
    IN  [token |-> fcmToken,
         notification |-> [title |-> IF senderName # "" THEN senderName ELSE call.title,
                           body |-> call.body],
         data |-> convertToStringValues(Spread(
            [type |-> call.type,
             recipientId |-> call.recipientId,
             notificationId |-> nid,
             senderAvatar |-> avatarLogic(data),
             senderName |-> senderName,
             senderId |-> OrEmpty(Get(data, "senderId")),
             targetId |-> ids.targetId,
             targetType |-> ids.targetType,
             postId |-> ids.postId,
             placeId |-> ids.placeId,
             reviewId |-> ids.reviewId,
             commentId |-> ids.commentId,
             click_action |-> "FLUTTER_NOTIFICATION_CLICK",
             appColor |-> "#1C59A4"],
            data))]

pushDeliveredWhenAttempted(attempted, env) == attempted

\* lines 150-155: whether the send returned (delivered = true)
pushDelivered(attempted, env) == attempted /\ env.push = "ok"

\* lines 158-178
notificationDoc(call, nid, delivered, fcmMessageId) ==
    LET data == call.data
        ids == reconcile(data)
    IN  [id |-> nid,
         recipientId |-> call.recipientId,
         title |-> call.title,
         body |-> call.body,
         type |-> call.type,
         senderId |-> OrEmpty(Get(data, "senderId")),
         senderName |-> OrEmpty(Get(data, "senderName")),
         senderAvatar |-> avatarLogic(data),
         targetId |-> ids.targetId,
         targetType |-> ids.targetType,
         postId |-> ids.postId,
         placeId |-> ids.placeId,
         reviewId |-> ids.reviewId,
         commentId |-> ids.commentId,
         isRead |-> FALSE,
         timestamp |-> "serverTimestamp",
         delivered |-> delivered,
         fcmMessageId |-> fcmMessageId,
         data |-> removeUndefined(data)]

NoMessage == [none |-> TRUE]

NoDoc == [none |-> TRUE]

\* a call that ended before the push step
Aborted(call, existed) ==
    [call |-> call, recipientId |-> call.recipientId, type |-> call.type,
     existed |-> existed, fault |-> ~existed, attempted |-> FALSE, push |-> "none", msgId |-> "", token |-> "",
     message |-> NoMessage, written |-> FALSE, nid |-> "", doc |-> NoDoc, ret |-> FALSE]

recipientNeverMissing(us, call) == FALSE

\* line 61: !userDoc.exists
recipientMissing(us, call) == ~us[call.recipientId].exists

recordWrittenWhenDelivered(delivered, env) == delivered /\ env.fault # "write"

\* lines 157-180: the record is set whatever the push step did; the set
\* itself may throw
recordWritten(delivered, env) == env.fault # "write"

\* the outcome of one call: what it read, sent, wrote and returned
sendAndLogNotification(us, logs, call, env) ==
    IF call.recipientId \notin DOMAIN us \/ env.fault = "read"
    THEN [Aborted(call, FALSE) EXCEPT !.fault = TRUE]              \* line 60 throws, lines 182-185
    ELSE IF recipientMissing(us, call)
    THEN [Aborted(call, FALSE) EXCEPT !.fault = FALSE]             \* lines 61-64
    ELSE
        LET fcmToken == us[call.recipientId].fcmToken
            nid == notificationId(logs[call.recipientId], env)
            attempted == Truthy(fcmToken)
            delivered == pushDelivered(attempted, env)
            fcmMessageId == IF delivered THEN env.msgId ELSE Null
            written == recordWritten(delivered, env)
        IN  [call |-> call,
             recipientId |-> call.recipientId,
             type |-> call.type,
             existed |-> us[call.recipientId].exists,
             fault |-> env.fault # "none",
             attempted |-> attempted,
             push |-> IF attempted THEN env.push ELSE "none",
             msgId |-> IF attempted /\ env.push = "ok" THEN env.msgId ELSE "",
             token |-> IF attempted THEN fcmToken ELSE "",
             message |-> IF attempted THEN fcmMessage(fcmToken, call, nid) ELSE NoMessage,
             written |-> written,
             nid |-> IF written THEN nid ELSE "",
             doc |-> IF written THEN notificationDoc(call, nid, delivered, fcmMessageId)
                     ELSE NoDoc,
             ret |-> written]

setNotificationWhenDelivered(logs, res) ==
    IF res.written /\ res.doc.delivered
    THEN [logs EXCEPT ![res.recipientId] =
            [k \in DOMAIN @ \cup {res.nid} |-> IF k = res.nid THEN res.doc ELSE @[k]]]
    ELSE logs

\* line 180: doc(notificationId).set(notificationDoc)
setNotification(logs, res) ==
    IF res.written
    THEN [logs EXCEPT ![res.recipientId] =
            [k \in DOMAIN @ \cup {res.nid} |-> IF k = res.nid THEN res.doc ELSE @[k]]]
    ELSE logs

\* the environments of a call that differ in what the call does
CallEnvs(us, logs, call) ==
    LET rid == call.recipientId
        thrown == [fault |-> "read", push |-> "none", msgId |-> "", nid |-> ""]
    IN  IF rid \notin DOMAIN us THEN {thrown}
        ELSE IF ~us[rid].exists THEN {thrown, [thrown EXCEPT !.fault = "none"]}
        ELSE {thrown} \cup
             {[fault |-> f, push |-> p[1], msgId |-> p[2], nid |-> n] :
                f \in {"none", "write"},
                p \in IF Truthy(us[rid].fcmToken)
                      THEN {<<"ok", m>> : m \in MsgIds}
                           \cup {<<"error", "">>, <<"unregistered", "">>}
                      ELSE {<<"none", "">>},
                n \in DOMAIN logs[rid] \cup {FreshId(logs[rid])}}

TotalRecords == LET RECURSIVE Sum(_)
                    Sum(S) == IF S = {} THEN 0
                              ELSE LET u == CHOOSE x \in S : TRUE
                                   IN Cardinality(DOMAIN notifications[u]) + Sum(S \ {u})
                IN Sum(DOMAIN notifications)

\* the model stops handling events that may dispatch once the logs hold
\* MaxRecords records
MaxRecords == 1

CanDispatch == TotalRecords < MaxRecords

(***************************************************************************)
(* LISTENERS (lines 312-544).  Each rule maps a change event, and what the *)
(* store returns for the documents the rule looks up, to the calls of      *)
(* sendAndLogNotification it makes.  A template string `${x} text` is the  *)
(* pair <<x, " text">>.                                                    *)
(***************************************************************************)
Call(recipientId, title, body, type, data) ==
    [recipientId |-> recipientId, title |-> title, body |-> body, type |-> type,
     data |-> data]

\* x || fallback
Or(v, fallback) == IF Truthy(v) THEN v ELSE fallback

\* newReviewCalls with the reviewId of line 328 left out
newReviewCallsWithoutReviewId(docId, review) ==
    IF Truthy(review.placeOwnerId) /\ review.userId # review.placeOwnerId
    THEN << [recipientId |-> review.placeOwnerId, title |-> "New Review",
             body |-> <<review.userName, " reviewed your place">>, type |-> "new_review",
             data |-> [senderId |-> review.userId,
                       senderName |-> review.userName,
                       senderAvatar |-> review.userAvatar,
                       targetId |-> review.placeId,
                       targetType |-> "place",
                       placeId |-> review.placeId]] >>
    ELSE <<>>

\* 1. New Reviews Listener, an added change (lines 315-333)
newReviewCalls(docId, review) ==
    IF Truthy(review.placeOwnerId) /\ review.userId # review.placeOwnerId
    THEN << Call(review.placeOwnerId, "New Review",
                 <<review.userName, " reviewed your place">>, "new_review",
                 [senderId |-> review.userId,
                  senderName |-> review.userName,
                  senderAvatar |-> review.userAvatar,
                  targetId |-> review.placeId,
                  targetType |-> "place",
                  placeId |-> review.placeId,
                  reviewId |-> docId]) >>
    ELSE <<>>

\* path.startsWith('Comments/'), path.includes('Posts/'), on a path given by
\* its segments
StartsWithComments(path) == path[1] = "Comments"

IncludesPosts(path) == \E i \in 1..(Len(path) - 1) : path[i] = "Posts"

\* 2. Comments Listener, CASE A (lines 349-372)
reviewCommentCalls(docId, comment, review) ==
    IF comment.parentType = "review" /\ review # NoDoc /\ comment.userId # review.userId
    THEN << Call(review.userId, "New Comment",
                 <<comment.userName, " commented on your review">>, "new_comment",
                 [senderId |-> comment.userId,
                  senderName |-> comment.userName,
                  senderAvatar |-> comment.userAvatar,
                  targetId |-> comment.parentId,
                  targetType |-> "review",
                  placeId |-> review.placeId,
                  reviewId |-> comment.parentId,
                  commentId |-> docId]) >>
    ELSE <<>>

\* postCommentCalls with the targetType of CASE A
postCommentCallsAsReview(docId, path, comment, post) ==
    IF post # NoDoc /\ comment.userId # post.userId
    THEN << [recipientId |-> post.userId, title |-> "New Comment",
             body |-> <<comment.userName, " commented on your post">>, type |-> "new_comment",
             data |-> [senderId |-> comment.userId,
                       senderName |-> comment.userName,
                       senderAvatar |-> comment.userAvatar,
                       targetId |-> path[2],
                       targetType |-> "review",
                       postId |-> path[2],
                       commentId |-> docId]] >>
    ELSE <<>>

\* 2. Comments Listener, CASE B (lines 374-395)
postCommentCalls(docId, path, comment, post) ==
    LET postId == path[2] IN
    IF post # NoDoc /\ comment.userId # post.userId
    THEN << Call(post.userId, "New Comment",
                 <<comment.userName, " commented on your post">>, "new_comment",
                 [senderId |-> comment.userId,
                  senderName |-> comment.userName,
                  senderAvatar |-> comment.userAvatar,
                  targetId |-> postId,
                  targetType |-> "post",
                  postId |-> postId,
                  commentId |-> docId]) >>
    ELSE <<>>

replyCallsToAnyone(docId, comment, parent) ==
    IF Truthy(comment.parentCommentId) /\ parent # NoDoc
    THEN << [recipientId |-> parent.userId, title |-> "New Reply",
             body |-> <<comment.userName, " replied to you">>, type |-> "comment_replied",
             data |-> [senderId |-> comment.userId,
                       senderName |-> comment.userName,
                       senderAvatar |-> comment.userAvatar,
                       targetId |-> comment.parentCommentId,
                       targetType |-> "comment",
                       postId |-> OrEmpty(comment.postId),
                       placeId |-> OrEmpty(parent.placeId),
                       commentId |-> docId,
                       parentCommentId |-> comment.parentCommentId]] >>
    ELSE <<>>

\* 2. Comments Listener, HANDLE REPLIES (lines 398-422); parent is docs[0]
\* of the collection-group query, NoDoc when the query is empty
replyCalls(docId, comment, parent) ==
    IF Truthy(comment.parentCommentId) /\ parent # NoDoc /\ comment.userId # parent.userId
    THEN << Call(parent.userId, "New Reply",
                 <<comment.userName, " replied to you">>, "comment_replied",
                 [senderId |-> comment.userId,
                  senderName |-> comment.userName,
                  senderAvatar |-> comment.userAvatar,
                  targetId |-> comment.parentCommentId,
                  targetType |-> "comment",
                  postId |-> OrEmpty(comment.postId),
                  placeId |-> OrEmpty(parent.placeId),
                  commentId |-> docId,
                  parentCommentId |-> comment.parentCommentId]) >>
    ELSE <<>>

\* newCommentCalls with the reply step as a further else-branch of the
\* path test
newCommentCallsReplyElse(docId, path, comment, review, post, parent) ==
    IF StartsWithComments(path) THEN reviewCommentCalls(docId, comment, review)
    ELSE IF IncludesPosts(path) THEN postCommentCalls(docId, path, comment, post)
    ELSE replyCalls(docId, comment, parent)

\* newCommentCalls with the reply step before the branch of the path
newCommentCallsReplyFirst(docId, path, comment, review, post, parent) ==
    replyCalls(docId, comment, parent)
    \o (IF StartsWithComments(path) THEN reviewCommentCalls(docId, comment, review)
        ELSE IF IncludesPosts(path) THEN postCommentCalls(docId, path, comment, post)
        ELSE <<>>)

\* 2. Comments Listener, an added change (lines 344-423)
newCommentCalls(docId, path, comment, review, post, parent) ==
    (IF StartsWithComments(path) THEN reviewCommentCalls(docId, comment, review)
     ELSE IF IncludesPosts(path) THEN postCommentCalls(docId, path, comment, post)
     ELSE <<>>)
    \o replyCalls(docId, comment, parent)

\* the store lookups the handler of an added comment awaits, in order (lines
\* 351, 376, 399)
commentLookups(path, comment) ==
    (IF StartsWithComments(path)
     THEN (IF comment.parentType = "review" THEN <<"review">> ELSE <<>>)
     ELSE IF IncludesPosts(path) THEN <<"post">>
     ELSE <<>>)
    \o (IF Truthy(comment.parentCommentId) THEN <<"parent">> ELSE <<>>)

\* Array.prototype.find(l => !oldLikes.includes(l)): Undef when none
RECURSIVE FindNotIn(_, _)
FindNotIn(newLikes, oldLikes) ==
    IF newLikes = <<>> THEN Undef
    ELSE IF \A i \in DOMAIN oldLikes : oldLikes[i] # Head(newLikes) THEN Head(newLikes)
    ELSE FindNotIn(Tail(newLikes), oldLikes)

likerOfKnownPrevious(newLikes, previous) ==
    IF previous = NoDoc THEN Undef
    ELSE IF Len(newLikes) > Len(previous.likes) THEN FindNotIn(newLikes, previous.likes)
    ELSE Undef

\* lines 435-440, 469-474: the liker a modified change identifies (Undef when
\* the set did not grow); previous is NoDoc when the snapshot has none
likerOf(newLikes, previous) ==
    LET oldLikes == IF previous = NoDoc THEN <<>> ELSE previous.likes IN
    IF Len(newLikes) > Len(oldLikes) THEN FindNotIn(newLikes, oldLikes) ELSE Undef

\* liker.data()?.name, liker.data()?.avatar of the Users document read
dataName(us, id) == IF id \in DOMAIN us /\ us[id].exists THEN us[id].name ELSE Undef

dataAvatar(us, id) == IF id \in DOMAIN us /\ us[id].exists THEN ProfileAvatar(id) ELSE Undef

reviewLikeCallsRetried(us, docId, review, newLikes, previous) ==
    LET likerId == likerOf(newLikes, previous)
        call == Call(review.userId, "New Like",
                     <<Or(dataName(us, likerId), "Someone"), " liked your review">>,
                     "review_liked",
                     [senderId |-> likerId,
                      senderName |-> dataName(us, likerId),
                      senderAvatar |-> dataAvatar(us, likerId),
                      targetId |-> docId,
                      targetType |-> "review",
                      placeId |-> review.placeId,
                      reviewId |-> docId])
    IN  IF Truthy(likerId) /\ likerId # review.userId THEN <<call, call>> ELSE <<>>

\* 3. Likes Listener, Reviews, a modified change (lines 433-460)
reviewLikeCalls(us, docId, review, newLikes, previous) ==
    LET likerId == likerOf(newLikes, previous) IN
    IF Truthy(likerId) /\ likerId # review.userId
    THEN << Call(review.userId, "New Like",
                 <<Or(dataName(us, likerId), "Someone"), " liked your review">>,
                 "review_liked",
                 [senderId |-> likerId,
                  senderName |-> dataName(us, likerId),
                  senderAvatar |-> dataAvatar(us, likerId),
                  targetId |-> docId,
                  targetType |-> "review",
                  placeId |-> review.placeId,
                  reviewId |-> docId]) >>
    ELSE <<>>

\* 3. Likes Listener, Posts, a modified change (lines 467-493)
postLikeCalls(us, docId, post, newLikes, previous) ==
    LET likerId == likerOf(newLikes, previous) IN
    IF Truthy(likerId) /\ likerId # post.userId
    THEN << Call(post.userId, "New Like",
                 <<Or(dataName(us, likerId), "Someone"), " liked your post">>,
                 "post_liked",
                 [senderId |-> likerId,
                  senderName |-> dataName(us, likerId),
                  senderAvatar |-> dataAvatar(us, likerId),
                  targetId |-> docId,
                  targetType |-> "post",
                  postId |-> docId]) >>
    ELSE <<>>

oldFollowerCountZero(cache, userId) == 0

\* line 513: userFollowersCache[userId] || 0
oldFollowerCount(cache, userId) == IF userId \in DOMAIN cache THEN cache[userId] ELSE 0

\* lines 515-516: the follower a modified change identifies (Undef when the
\* count did not grow)
newFollowerOf(cache, userId, newFollowers) ==
    IF Len(newFollowers) > oldFollowerCount(cache, userId)
    THEN newFollowers[Len(newFollowers)]
    ELSE Undef

\* 4. New Followers Listener, a modified change (lines 506-536)
newFollowerCalls(us, cache, userId, newFollowers) ==
    LET newFollowerId == newFollowerOf(cache, userId, newFollowers) IN
    IF Truthy(newFollowerId) /\ newFollowerId # userId
    THEN << Call(userId, "New Follower",
                 <<Or(dataName(us, newFollowerId), "Someone"), " started following you">>,
                 "new_follower",
                 [senderId |-> newFollowerId,
                  senderName |-> Or(dataName(us, newFollowerId), "User"),
                  senderAvatar |-> OrEmpty(dataAvatar(us, newFollowerId)),
                  targetId |-> newFollowerId,
                  targetType |-> "user"]) >>
    ELSE <<>>

\* line 538 moved into the block of line 515
cacheSetOnGrowth(cache, userId, count) ==
    IF count > (IF userId \in DOMAIN cache THEN cache[userId] ELSE 0)
    THEN [k \in DOMAIN cache \cup {userId} |-> IF k = userId THEN count ELSE cache[k]]
    ELSE cache

cacheSetNothing(cache, userId, count) == cache

\* line 538
cacheSet(cache, userId, count) ==
    [k \in DOMAIN cache \cup {userId} |-> IF k = userId THEN count ELSE cache[k]]

(***************************************************************************)
(* API ENDPOINTS (lines 193-305)                                           *)
(***************************************************************************)
MissingAll(fields) == \A i \in DOMAIN fields : ~Truthy(fields[i])

\* lines 196-201, 228-233: a required field is missing
Missing(fields) == \E i \in DOMAIN fields : ~Truthy(fields[i])

\* lines 237-243: the call of POST /send-notification
sendNotificationCall(req) ==
    Call(req.toUserId, req.title, <<"", req.body>>, req.type,
         Spread([senderName |-> OrEmpty(req.senderName),
                 senderAvatar |-> OrEmpty(req.senderAvatar),
                 targetId |-> OrEmpty(req.targetId),
                 targetType |-> OrEmpty(req.targetType)],
                req.extraData))

\* lines 285-299: the call of POST /test-notification (type, title and body
\* take their defaults)
testNotificationCall(userId) ==
    Call(userId, "Test", <<"", "Test notification">>, "test",
         [senderId |-> "test_sender",
          senderName |-> "Test User",
          targetId |-> "test_target",
          targetType |-> "test",
          test |-> "true"])

(***************************************************************************)
(* The state machine.  A request or a change event is handled in one step, *)
(* from its arrival to the end of its handler.                             *)
(***************************************************************************)
\* no document is watched by the asynchronous handlers
FeedQuiet ==
    /\ fdDoc = NoDoc
    /\ fdQueue = <<>>
    /\ fdTasks = <<>>
    /\ fdOut = <<>>
    /\ fdSubs = <<>>
    /\ fdLogged = {}

EmptyObject == [k \in {} |-> ""]

Idle ==
    [op |-> "none", req |-> NoDoc, status |-> 0, rules |-> <<>>, dispatches |-> <<>>,
     error |-> "none", success |-> FALSE]

Init ==
    /\ users = [u \in UserIds |->
                    CASE u = "u1" -> [exists |-> TRUE, fcmToken |-> "tokA",
                                      name |-> ProfileName(u)]
                      [] u = "u2" -> [exists |-> TRUE, fcmToken |-> Undef,
                                      name |-> ProfileName(u)]
                      [] OTHER -> [exists |-> FALSE, fcmToken |-> Undef, name |-> Undef]]
    /\ notifications = [u \in UserIds |-> EmptyObject]
    /\ userFollowersCache = EmptyObject
    /\ last = Idle
    /\ rcIn = NoResult
    /\ rcOnce = NoResult
    /\ rcTwice = NoResult
    /\ rcPhase = 0
    /\ FeedQuiet

Ready == last.op = "none"

DoneRespondsOk(op, req, rules, results, status, error) ==
    [op |-> op, req |-> req,
     status |-> IF status = 0 THEN 0 ELSE 200,
     rules |-> rules, dispatches |-> results, error |-> error,
     success |-> status # 0]

\* what a handler leaves when it ends.  status: 0 for a listener, else the
\* status the endpoint answers when its call returns false (lines 245-255:
\* 500, line 301: 200); success: the flag of the response body.
\* error: "none", or "unhandled_rejection" when an awaited store lookup of a
\* listener callback rejected (the callbacks have no try/catch)
Done(op, req, rules, results, status, error) ==
    [op |-> op, req |-> req,
     status |-> IF status = 0 THEN 0
                ELSE IF \A i \in DOMAIN results : results[i].ret THEN 200 ELSE status,
     rules |-> rules, dispatches |-> results, error |-> error,
     success |-> status # 0 /\ \A i \in DOMAIN results : results[i].ret]

\* the handler makes its calls, one after the other (each is awaited); last
\* records the rules it evaluated (the actor and the recipient each
\* computed) and the outcome of every call
Handle(op, req, rules, calls, status, error) ==
    IF calls = <<>>
    THEN /\ notifications' = notifications
         /\ last' = Done(op, req, rules, <<>>, status, error)
    ELSE \E e1 \in CallEnvs(users, notifications, calls[1]) :
            LET r1 == sendAndLogNotification(users, notifications, calls[1], e1)
                l1 == setNotification(notifications, r1)
            IN  IF Len(calls) = 1
                THEN /\ notifications' = l1
                     /\ last' = Done(op, req, rules, <<r1>>, status, error)
                ELSE \E e2 \in CallEnvs(users, l1, calls[2]) :
                        LET r2 == sendAndLogNotification(users, l1, calls[2], e2) IN
                        /\ notifications' = setNotification(l1, r2)
                        /\ last' = Done(op, req, rules, <<r1, r2>>, status, error)

\* the handler has returned: the server waits for the next request or event
EventLoopIdle ==
    /\ last.op \notin {"none", "exited"}
    /\ last' = Idle
    /\ UNCHANGED <<users, notifications, userFollowersCache, rcVars, fdVars>>

Rule(rule, actor, recipient) == [rule |-> rule, actor |-> actor, recipient |-> recipient]

PlaceIds == {"pl1", Undef}

ReviewAddedEvents ==
    {[userId |-> u, userName |-> ProfileName(u), userAvatar |-> ProfileAvatar(u),
      placeOwnerId |-> o, placeId |-> pl] :
        u \in UserIds, o \in UserIds \cup {""}, pl \in PlaceIds}

\* Reviews change feed, type added (lines 313-335)
ReviewAdded ==
    /\ Ready /\ CanDispatch
    /\ \E review \in ReviewAddedEvents :
        Handle("review_added", review,
               <<Rule("new_review", review.userId, review.placeOwnerId)>>,
               newReviewCalls("r1", review), 0, "none")
    /\ UNCHANGED <<users, userFollowersCache, rcVars, fdVars>>

\* what the store returns for the document a comment names: nothing, or a
\* document of one of these authors
ReviewLookups == {NoDoc} \cup {[userId |-> u, placeId |-> "pl1"] : u \in {"u1", "u2"}}

PostLookups == {NoDoc} \cup {[userId |-> u] : u \in {"u1", "u2"}}

ParentLookups == {NoDoc} \cup {[userId |-> u, placeId |-> Undef] : u \in {"u1", "u3"}}

CommentOf(u, parentType, parentId, parentCommentId, postId) ==
    [userId |-> u, userName |-> ProfileName(u), userAvatar |-> ProfileAvatar(u),
     parentType |-> parentType, parentId |-> parentId,
     parentCommentId |-> parentCommentId, postId |-> postId]

\* an added comment, its path, and what the store returns for the review,
\* the post and the parent comment the handler looks up
CommentAddedEvents ==
    {[path |-> <<"Comments", "c1">>, comment |-> CommentOf(u, pt, "r1", pc, Undef),
      review |-> rv, post |-> NoDoc, parent |-> pa] :
        u \in UserIds, pt \in {"review", "place"}, pc \in {Undef, "c0"},
        rv \in ReviewLookups, pa \in ParentLookups}
    \cup
    {[path |-> <<"Posts", "p1", "Comments", "c1">>,
      comment |-> CommentOf(u, Undef, Undef, pc, "p1"),
      review |-> NoDoc, post |-> po, parent |-> pa] :
        u \in UserIds, pc \in {Undef, "c0"}, po \in PostLookups, pa \in ParentLookups}
    \cup
    {[path |-> <<"Places", "pl1", "Comments", "c1">>,
      comment |-> CommentOf(u, "place", "pl1", pc, Undef),
      review |-> NoDoc, post |-> NoDoc, parent |-> pa] :
        u \in UserIds, pc \in {Undef, "c0"}, pa \in ParentLookups}

\* the rules a comment event evaluates, with the recipient each computes
commentRules(ev) ==
    (IF StartsWithComments(ev.path) /\ ev.comment.parentType = "review" /\ ev.review # NoDoc
     THEN <<Rule("new_comment", ev.comment.userId, ev.review.userId)>>
     ELSE IF ~StartsWithComments(ev.path) /\ IncludesPosts(ev.path) /\ ev.post # NoDoc
     THEN <<Rule("new_comment", ev.comment.userId, ev.post.userId)>>
     ELSE <<>>)
    \o (IF Truthy(ev.comment.parentCommentId) /\ ev.parent # NoDoc
        THEN <<Rule("comment_replied", ev.comment.userId, ev.parent.userId)>>
        ELSE <<>>)

\* the lookup of the handler that rejects: none, or one of those it awaits
\* (a lookup that rejects returns no document)
Rejections(ev) ==
    {"none"} \cup
    {l \in {"review", "post", "parent"} :
        /\ \E i \in DOMAIN commentLookups(ev.path, ev.comment) :
                commentLookups(ev.path, ev.comment)[i] = l
        /\ ev[l] = NoDoc}

\* Comments collection-group change feed, type added (lines 342-424).  The
\* callback has no try/catch: when a lookup rejects, the calls made before it
\* stand and the rejection leaves the callback unhandled.
CommentAdded ==
    /\ Ready /\ CanDispatch
    /\ \E ev \in CommentAddedEvents :
        \E rejected \in Rejections(ev) :
            LET req == [path |-> ev.path, comment |-> ev.comment, review |-> ev.review,
                        post |-> ev.post, parent |-> ev.parent, rejected |-> rejected]
                noReply == [ev EXCEPT !.comment.parentCommentId = Undef]
            IN  IF rejected = "none"
                THEN Handle("comment_added", req, commentRules(ev),
                            newCommentCalls("c1", ev.path, ev.comment, ev.review, ev.post,
                                            ev.parent),
                            0, "none")
                ELSE IF rejected = "parent"
                THEN Handle("comment_added", req, commentRules(noReply),
                            newCommentCalls("c1", ev.path, noReply.comment, ev.review,
                                            ev.post, ev.parent),
                            0, "unhandled_rejection")
                ELSE Handle("comment_added", req, <<>>, <<>>, 0, "unhandled_rejection")
    /\ UNCHANGED <<users, userFollowersCache, rcVars, fdVars>>

\* the engagement lists of the model: no member twice, MaxMembers at most
MaxMembers == 2

RECURSIVE Lists(_)
Lists(n) ==
    IF n = 0 THEN {<<>>}
    ELSE LET shorter == Lists(n - 1) IN
         shorter \cup {Append(l, u) : l \in shorter, u \in UserIds}

NoRepeat(l) == \A i, j \in DOMAIN l : i # j => l[i] # l[j]

MemberLists == {l \in Lists(MaxMembers) : NoRepeat(l)}

\* change.doc.previous of a modified change whose document held the list
\* `before`: the snapshot of the Node SDK has no such property (NoDoc); a
\* snapshot that had it would hold the document as it was
Previous(before) == {NoDoc, [likes |-> before]}

\* a modified Review or Post: its author, its list of likes (likes, likedBy)
\* as it is and as it was before the change, and change.doc.previous
LikeEvents ==
    {[userId |-> u, placeId |-> "pl1", likes |-> l, before |-> b[1], previous |-> b[2]] :
        u \in {"u1", "u2"}, l \in MemberLists,
        b \in UNION {{<<x, p>> : p \in Previous(x)} : x \in MemberLists}}

\* the event of a handler whose lookup of the liker or follower rejected
LookupRejected(ev) ==
    [k \in DOMAIN ev \cup {"rejected"} |-> IF k = "rejected" THEN "yes" ELSE ev[k]]

likeRules(rule, ev) ==
    IF likerOf(ev.likes, ev.previous) # Undef
    THEN <<Rule(rule, likerOf(ev.likes, ev.previous), ev.userId)>>
    ELSE <<>>

\* Reviews change feed, type modified (lines 431-462)
ReviewModified ==
    /\ Ready /\ CanDispatch
    /\ \E ev \in LikeEvents :
        \/ Handle("review_modified", ev, likeRules("review_liked", ev),
                  reviewLikeCalls(users, "r1", ev, ev.likes, ev.previous), 0, "none")
        \* line 442: the get of the liker's document rejects
        \/ /\ reviewLikeCalls(users, "r1", ev, ev.likes, ev.previous) # <<>>
           /\ Handle("review_modified", LookupRejected(ev), likeRules("review_liked", ev),
                     <<>>, 0, "unhandled_rejection")
    /\ UNCHANGED <<users, userFollowersCache, rcVars, fdVars>>

\* Posts change feed, type modified (lines 465-495)
PostModified ==
    /\ Ready /\ CanDispatch
    /\ \E ev \in LikeEvents :
        \/ Handle("post_modified", ev, likeRules("post_liked", ev),
                  postLikeCalls(users, "p1", ev, ev.likes, ev.previous), 0, "none")
        \* line 476: the get of the liker's document rejects
        \/ /\ postLikeCalls(users, "p1", ev, ev.likes, ev.previous) # <<>>
           /\ Handle("post_modified", LookupRejected(ev), likeRules("post_liked", ev),
                     <<>>, 0, "unhandled_rejection")
    /\ UNCHANGED <<users, userFollowersCache, rcVars, fdVars>>

\* the users whose followers change in the model
FollowedUsers == {"u2"}

\* Users change feed, type modified (lines 504-540)
UserModified ==
    /\ Ready /\ CanDispatch
    \* before: the followers of the document before the change; the cache holds
    \* the length seen by the last handler that reached line 538, or nothing
    /\ \E userId \in FollowedUsers, followers \in MemberLists, before \in MemberLists :
        LET req == [userId |-> userId, followers |-> followers, before |-> before]
            rules == IF newFollowerOf(userFollowersCache, userId, followers) # Undef
                     THEN <<Rule("new_follower",
                                 newFollowerOf(userFollowersCache, userId, followers),
                                 userId)>>
                     ELSE <<>>
            calls == newFollowerCalls(users, userFollowersCache, userId, followers)
        IN  /\ users[userId].exists
            /\ \/ /\ Handle("user_modified", req, rules, calls, 0, "none")
                  /\ userFollowersCache' =
                        cacheSet(userFollowersCache, userId, Len(followers))
               \* line 519: the get of the follower's document rejects, and
               \* line 538 is not reached
               \/ /\ calls # <<>>
                  /\ Handle("user_modified", LookupRejected(req), rules, <<>>, 0,
                            "unhandled_rejection")
                  /\ UNCHANGED userFollowersCache
    /\ UNCHANGED <<users, rcVars, fdVars>>

\* the five onSnapshot subscriptions (lines 313, 342, 431, 465, 504)
Feeds == {"reviews_added", "comments", "reviews_likes", "posts_likes", "users"}

ChangeTypes == {"added", "modified", "removed"}

\* the change type the callback of each subscription tests for (lines 315,
\* 344, 434, 468, 506)
HandledType(feed) == IF feed \in {"reviews_added", "comments"} THEN "added" ELSE "modified"

onChangeTypeAny(type, handled, body) == body

\* if (change.type === 'added') { ... }, if (change.type === 'modified') { ... }
onChangeType(type, handled, body) == IF type = handled THEN body ELSE <<>>

\* what the body of each callback would do with a change of its collection:
\* the calls it would make and, for Users, the followers whose length line
\* 538 would store
ChangeBodies(feed) ==
    CASE feed = "reviews_added" ->
            {[calls |-> newReviewCalls("r1", rv), followers |-> <<>>] :
                rv \in ReviewAddedEvents}
      [] feed = "comments" ->
            {[calls |-> newCommentCalls("c1", ev.path, ev.comment, ev.review, ev.post,
                                        ev.parent),
              followers |-> <<>>] : ev \in CommentAddedEvents}
      [] feed = "reviews_likes" ->
            {[calls |-> reviewLikeCalls(users, "r1", ev, ev.likes, ev.previous),
              followers |-> <<>>] : ev \in LikeEvents}
      [] feed = "posts_likes" ->
            {[calls |-> postLikeCalls(users, "p1", ev, ev.likes, ev.previous),
              followers |-> <<>>] : ev \in LikeEvents}
      [] OTHER ->
            {[calls |-> newFollowerCalls(users, userFollowersCache, u, f),
              followers |-> f] : u \in FollowedUsers, f \in MemberLists}

\* a change of a type the callback of its subscription does not test for: a
\* removed document, an added Post or User, a modified Comment, and so on
ChangeOfOtherType ==
    /\ Ready /\ CanDispatch
    /\ \E feed \in Feeds, type \in ChangeTypes :
        /\ type # HandledType(feed)
        /\ \E body \in ChangeBodies(feed) :
            /\ Handle("other_change", [feed |-> feed, type |-> type], <<>>,
                      onChangeType(type, HandledType(feed), body.calls), 0, "none")
            /\ userFollowersCache' =
                    IF feed = "users"
                       /\ onChangeType(type, HandledType(feed), <<"line 538">>) # <<>>
                    THEN cacheSet(userFollowersCache, "u2", Len(body.followers))
                    ELSE userFollowersCache
    /\ UNCHANGED <<users, rcVars, fdVars>>

\* an unhandled promise rejection ends the Node process (the default of the
\* runtime since version 15; earlier versions print a warning and go on,
\* which is EventLoopIdle)
ProcessExit ==
    /\ last.error = "unhandled_rejection"
    /\ last' = [Idle EXCEPT !.op = "exited"]
    /\ UNCHANGED <<users, notifications, userFollowersCache, rcVars, fdVars>>

setTokenWhenNone(us, userId, fcmToken) ==
    IF us[userId].exists /\ Truthy(us[userId].fcmToken) THEN us
    ELSE [us EXCEPT ![userId] = [@ EXCEPT !.exists = TRUE, !.fcmToken = fcmToken]]

\* update() in place of set(..., {merge: true}): no document is created
setTokenIfExists(us, userId, fcmToken) ==
    IF us[userId].exists THEN [us EXCEPT ![userId] = [@ EXCEPT !.fcmToken = fcmToken]]
    ELSE us

\* set() without {merge: true}: the document is replaced
setTokenReplaces(us, userId, fcmToken) ==
    [us EXCEPT ![userId] = [exists |-> TRUE, fcmToken |-> fcmToken, name |-> Undef]]

\* lines 204-207: set({fcmToken, ...}, {merge: true}) creates the document
\* when there is none
setToken(us, userId, fcmToken) ==
    [us EXCEPT ![userId] = [@ EXCEPT !.exists = TRUE, !.fcmToken = fcmToken]]

\* POST /register-token (lines 193-221); storeOk: the set of the user
\* document does not throw
RegisterToken ==
    /\ Ready /\ CanDispatch
    /\ \E userId \in UserIds \cup {Undef}, fcmToken \in NewTokens \cup {Undef},
          storeOk \in BOOLEAN :
        LET req == [userId |-> userId, fcmToken |-> fcmToken]
            status == IF Missing(<<userId, fcmToken>>) THEN 400
                      ELSE IF storeOk THEN 200 ELSE 500
        IN  /\ users' = IF status = 200 THEN setToken(users, userId, fcmToken) ELSE users
            /\ last' = [op |-> "register_token", req |-> req, status |-> status,
                        rules |-> <<>>, dispatches |-> <<>>, error |-> "none",
                        success |-> status = 200]
    /\ UNCHANGED <<notifications, userFollowersCache, rcVars, fdVars>>

ExtraDatas ==
    {EmptyObject, [senderId |-> "u1"], [senderId |-> "u2", postId |-> "p9"]}

SendRequests ==
    {[toUserId |-> to, type |-> ty, title |-> ti, body |-> b,
      senderName |-> "bob", senderAvatar |-> Undef,
      targetId |-> t[1], targetType |-> t[2], extraData |-> x] :
        to \in UserIds \cup {Undef}, ty \in {"custom", ""}, ti \in {"Hello", Undef},
        b \in {"hi", Undef},
        t \in {<<Undef, Undef>>, <<"x", "review">>}, x \in ExtraDatas}

\* POST /send-notification (lines 224-263)
SendNotification ==
    /\ Ready /\ CanDispatch
    /\ \E req \in SendRequests :
        IF Missing(<<req.toUserId, req.type, req.title, req.body>>)
        THEN /\ last' = [op |-> "send_notification", req |-> req, status |-> 400,
                         rules |-> <<>>, dispatches |-> <<>>, error |-> "none",
                         success |-> FALSE]
             /\ UNCHANGED notifications
        ELSE Handle("send_notification", req, <<>>, <<sendNotificationCall(req)>>, 500, "none")
    /\ UNCHANGED <<users, userFollowersCache, rcVars, fdVars>>

\* POST /test-notification (lines 283-305); the response is 200 with the
\* success flag in its body
TestNotification ==
    /\ Ready /\ CanDispatch
    /\ \E userId \in UserIds \cup {Undef} :
        Handle("test_notification", [userId |-> userId], <<>>,
               <<testNotificationCall(userId)>>, 200, "none")
    /\ UNCHANGED <<users, userFollowersCache, rcVars, fdVars>>

Next ==
    \/ ReviewAdded
    \/ CommentAdded
    \/ ReviewModified
    \/ PostModified
    \/ UserModified
    \/ RegisterToken
    \/ SendNotification
    \/ TestNotification
    \/ ChangeOfOtherType
    \/ EventLoopIdle
    \/ ProcessExit

Spec == Init /\ [][Next]_vars

(***************************************************************************)
(* Properties of the server (specification Spec)                           *)
(***************************************************************************)
\* the calls of sendAndLogNotification the last handler made
Dispatches == {last.dispatches[i] : i \in DOMAIN last.dispatches}

\* every record of every user's notification log
Records ==
    UNION {{notifications[u][n] : n \in DOMAIN notifications[u]} : u \in DOMAIN notifications}

\* a later call of the same handler wrote under the same notification id
Overwritten(i) ==
    \E j \in DOMAIN last.dispatches :
        /\ j > i
        /\ last.dispatches[j].written
        /\ last.dispatches[j].recipientId = last.dispatches[i].recipientId
        /\ last.dispatches[j].nid = last.dispatches[i].nid

\* C1: a call of sendAndLogNotification whose recipient exists, and in which
\* no store call threw, leaves its record in the recipient's log and returns
\* true, whether the push succeeded, raised an error, or was not attempted
\* for want of a token.
C1_RecordAlwaysWritten ==
    \A i \in DOMAIN last.dispatches :
        LET d == last.dispatches[i] IN
        (d.existed /\ ~d.fault) =>
            /\ d.push \in {"none", "ok", "error", "unregistered"}
            /\ d.ret
            /\ d.nid \in DOMAIN notifications[d.recipientId]
            /\ notifications[d.recipientId][d.nid] = d.doc \/ Overwritten(i)

\* a push that raised an error, and the record of that call in the log
C1_Witness ==
    \E d \in Dispatches :
        /\ d.existed /\ d.attempted /\ d.push = "error"
        /\ d.nid \in DOMAIN notifications[d.recipientId]
        /\ notifications[d.recipientId][d.nid].delivered = FALSE

\* C2: a call whose recipient document does not exist returns false, makes
\* no push attempt, writes no record, and leaves the store as it was.
C2_MissingRecipientAborts ==
    [][\A i \in DOMAIN last'.dispatches :
          LET d == last'.dispatches[i] IN
          (~d.existed /\ ~d.fault) =>
              /\ d.ret = FALSE
              /\ ~d.attempted /\ d.message = NoMessage
              /\ ~d.written
              /\ notifications'[d.recipientId] = notifications[d.recipientId]
              /\ users' = users]_vars

\* a call to a recipient without a user document, whose log is empty
C2_Witness ==
    \E d \in Dispatches :
        /\ ~d.existed /\ ~d.fault /\ d.ret = FALSE
        /\ ~users[d.recipientId].exists
        /\ notifications[d.recipientId] = EmptyObject

\* C3: every record has isRead false, has delivered true exactly when the
\* call made a push attempt and the send returned, and has fcmMessageId null
\* when delivered is false and the id the send returned when it is true.
C3_RecordDeliveryFields ==
    /\ \A r \in Records :
            /\ r.isRead = FALSE
            /\ r.delivered = (r.fcmMessageId # Null)
            /\ r.delivered => r.fcmMessageId \in MsgIds
    /\ \A d \in Dispatches :
            d.written =>
                /\ d.doc.delivered = (d.attempted /\ d.push = "ok")
                /\ d.doc.fcmMessageId = IF d.doc.delivered THEN d.msgId ELSE Null

\* one handler wrote a delivered record and an undelivered one
C3_Witness ==
    \E r1, r2 \in Records :
        /\ r1.delivered /\ r1.fcmMessageId = "msg2"
        /\ ~r2.delivered /\ r2.fcmMessageId = Null

\* C4: after a call whose push failed with
\* messaging/registration-token-not-registered, the recipient has no stored
\* push token.
C4_InvalidTokenCleared ==
    \A d \in Dispatches :
        d.push = "unregistered" => ~Truthy(users[d.recipientId].fcmToken)

C6_NoSelfNotification ==
    \A r \in Records : r.senderId # r.recipientId

ListenerTypes ==
    {"new_review", "new_comment", "comment_replied", "review_liked", "post_liked",
     "new_follower"}

\* the records the listener rules wrote, the payloads of the pushes they sent
ListenerRecords == {r \in Records : r.type \in ListenerTypes}

ListenerPayloads ==
    {d.message.data : d \in {x \in Dispatches : x.attempted /\ x.type \in ListenerTypes}}

ExactlyOneTypedId(p) ==
    \E k \in DOMAIN Kinds :
        /\ p[TypedKey(Kinds[k])] # ""
        /\ p[TypedKey(Kinds[k])] = p.targetId
        /\ p.targetType = Kinds[k]
        /\ \A j \in DOMAIN Kinds : j # k => p[TypedKey(Kinds[j])] = ""

\* C7 (as stated): in every record and push payload of a listener rule,
\* exactly one of postId, placeId, reviewId, commentId is non-empty, it
\* equals targetId and matches targetType, and the others are empty strings.
C7_ExactlyOneTypedId ==
    /\ \A r \in ListenerRecords : ExactlyOneTypedId(r)
    /\ \A p \in ListenerPayloads : ExactlyOneTypedId(p)

CanonicalTarget(p) ==
    /\ \A k \in DOMAIN Kinds :
            p[TypedKey(Kinds[k])] # Undef /\ p[TypedKey(Kinds[k])] # Null
    /\ p.targetType \in {"post", "place", "review"} =>
            p[TypedKey(p.targetType)] = p.targetId
    /\ p.type = "comment_replied" => p.targetType = "comment" /\ p.commentId # ""
    /\ p.type = "new_follower" =>
            /\ p.targetType = "user"
            /\ \A k \in DOMAIN Kinds : p[TypedKey(Kinds[k])] = ""

\* C7 (amended): in every record and push payload of a listener rule the
\* four typed ids are strings, never absent; when targetType is post, place
\* or review the typed id of that kind equals targetId; a reply has
\* targetType comment and its own id in commentId; a new follower has
\* targetType user and the four typed ids empty.  Several typed ids may be
\* non-empty.
C7_CanonicalTarget ==
    /\ \A r \in ListenerRecords : CanonicalTarget(r)
    /\ \A p \in ListenerPayloads : CanonicalTarget(p)

\* a New Review record and its push payload, with placeId and reviewId both set
C7_Witness ==
    \E d \in Dispatches :
        /\ d.type = "new_review" /\ d.attempted /\ d.written
        /\ d.doc \in Records
        /\ d.doc.placeId = d.doc.targetId /\ d.doc.placeId # "" /\ d.doc.reviewId # ""
        /\ d.message.data.placeId # "" /\ d.message.data.reviewId # ""

\* C12: a modified Review, Post or User whose list (likes, likedBy,
\* followers) is not longer than it was before the change makes no call of
\* sendAndLogNotification.
C12_NoDispatchWithoutGrowth ==
    /\ (last.op \in {"review_modified", "post_modified"}
            /\ Len(last.req.likes) <= Len(last.req.before))
        => last.dispatches = <<>>
    /\ (last.op = "user_modified" /\ Len(last.req.followers) <= Len(last.req.before))
        => last.dispatches = <<>>

\* C13: an added Review whose placeOwnerId is non-empty and differs from its
\* userId makes exactly one call, to placeOwnerId, of type new_review, with
\* senderId the review's userId, reviewId the document's id and placeId the
\* review's placeId; the record it writes carries the same ids.
C13_NewReviewRule ==
    (last.op = "review_added" /\ Truthy(last.req.placeOwnerId)
        /\ last.req.placeOwnerId # last.req.userId)
    => /\ Len(last.dispatches) = 1
       /\ LET d == last.dispatches[1] IN
           /\ d.call.recipientId = last.req.placeOwnerId
           /\ d.call.type = "new_review"
           /\ Get(d.call.data, "senderId") = last.req.userId
           /\ Get(d.call.data, "reviewId") = "r1"
           /\ Get(d.call.data, "placeId") = last.req.placeId
           /\ d.written =>
                /\ d.doc.recipientId = last.req.placeOwnerId
                /\ d.doc.type = "new_review"
                /\ d.doc.senderId = last.req.userId
                /\ d.doc.reviewId = "r1"
                /\ d.doc.placeId = OrEmpty(last.req.placeId)

\* the review r1 of u1 on the place pl1 of u2, and its record in u2's log
C13_Witness ==
    /\ last.op = "review_added"
    /\ last.req.userId = "u1" /\ last.req.placeOwnerId = "u2" /\ last.req.placeId = "pl1"
    /\ Len(last.dispatches) = 1
    /\ last.dispatches[1].written
    /\ last.dispatches[1].doc \in Records
    /\ last.dispatches[1].doc.reviewId = "r1" /\ last.dispatches[1].doc.placeId = "pl1"

\* the list grew by one member, appended to what it was
GrewByOne(before, likes) ==
    /\ Len(likes) = Len(before) + 1
    /\ SubSeq(likes, 1, Len(before)) = before

\* C14: a modification of a Review that grows its likes by one member m makes
\* one call, to the review's author, of type review_liked, with senderId m,
\* when m is not the author; a modification that grows the likes by the
\* author's own id makes no call.
C14_ReviewLikedSequence ==
    (last.op = "review_modified" /\ GrewByOne(last.req.before, last.req.likes))
    => LET m == last.req.likes[Len(last.req.likes)] IN
       IF m = last.req.userId
       THEN last.dispatches = <<>>
       ELSE /\ Len(last.dispatches) = 1
            /\ last.dispatches[1].call.recipientId = last.req.userId
            /\ last.dispatches[1].call.type = "review_liked"
            /\ Get(last.dispatches[1].call.data, "senderId") = m

\* the calls of type t the last handler made, in order
CallsOfType(t) ==
    SelectSeq([i \in DOMAIN last.dispatches |-> last.dispatches[i].call],
              LAMBDA c : c.type = t)

\* C15: when its store lookups succeed, an added Comment with a non-empty
\* parentCommentId makes one call of
\* type comment_replied, to the userId of the comment the collection-group
\* query on `id` returns, when that comment exists and its author is not the
\* replying user; otherwise it makes none.
C15_ReplyRule ==
    (last.op = "comment_added" /\ last.error = "none") =>
        LET ev == last.req
            replies == CallsOfType("comment_replied")
        IN  IF /\ Truthy(ev.comment.parentCommentId)
               /\ ev.parent # NoDoc
               /\ ev.parent.userId # ev.comment.userId
            THEN /\ Len(replies) = 1
                 /\ replies[1].recipientId = ev.parent.userId
                 /\ Get(replies[1].data, "senderId") = ev.comment.userId
                 /\ Get(replies[1].data, "parentCommentId") = ev.comment.parentCommentId
            ELSE replies = <<>>

\* u2 comments on u2's own review in reply to a comment of u1: the reply is
\* the only call, and its record is in u1's log
C15_Witness ==
    /\ last.op = "comment_added"
    /\ StartsWithComments(last.req.path)
    /\ last.req.comment.userId = "u2"
    /\ last.req.review # NoDoc /\ last.req.review.userId = "u2"
    /\ last.req.parent # NoDoc /\ last.req.parent.userId = "u1"
    /\ Len(last.dispatches) = 1
    /\ last.dispatches[1].type = "comment_replied"
    /\ last.dispatches[1].written
    /\ last.dispatches[1].doc \in Records

\* C16: when its store lookups succeed, an added Comment of the top-level
\* Comments collection with
\* parentType review makes one call of type new_comment to the author of the
\* review parentId (targetType review, reviewId = parentId); an added Comment
\* under a Post makes one to the post's author (targetType post, postId = the
\* post's id); in both cases unless the commenter is that author.  No event
\* makes two calls of type new_comment, and none is made when the review or
\* post does not exist.
C16_NewCommentRules ==
    (last.op = "comment_added" /\ last.error = "none") =>
        LET ev == last.req
            comments == CallsOfType("new_comment")
        IN  /\ Len(comments) <= 1
            /\ (StartsWithComments(ev.path) /\ ev.comment.parentType = "review") =>
                    IF ev.review # NoDoc /\ ev.review.userId # ev.comment.userId
                    THEN /\ Len(comments) = 1
                         /\ comments[1].recipientId = ev.review.userId
                         /\ Get(comments[1].data, "targetType") = "review"
                         /\ Get(comments[1].data, "reviewId") = ev.comment.parentId
                         /\ Get(comments[1].data, "targetId") = ev.comment.parentId
                    ELSE comments = <<>>
            /\ (~StartsWithComments(ev.path) /\ IncludesPosts(ev.path)) =>
                    IF ev.post # NoDoc /\ ev.post.userId # ev.comment.userId
                    THEN /\ Len(comments) = 1
                         /\ comments[1].recipientId = ev.post.userId
                         /\ Get(comments[1].data, "targetType") = "post"
                         /\ Get(comments[1].data, "postId") = ev.path[2]
                         /\ Get(comments[1].data, "targetId") = ev.path[2]
                    ELSE comments = <<>>
            /\ (StartsWithComments(ev.path) /\ ev.comment.parentType # "review") =>
                    comments = <<>>
            /\ (~StartsWithComments(ev.path) /\ ~IncludesPosts(ev.path)) =>
                    comments = <<>>

\* u1 comments on the post p1 of u2: one new_comment record, for the post
C16_Witness ==
    /\ last.op = "comment_added"
    /\ IncludesPosts(last.req.path)
    /\ last.req.comment.userId = "u1"
    /\ last.req.post # NoDoc /\ last.req.post.userId = "u2"
    /\ Len(last.dispatches) = 1
    /\ last.dispatches[1].type = "new_comment"
    /\ last.dispatches[1].written
    /\ last.dispatches[1].doc \in Records
    /\ last.dispatches[1].doc.targetType = "post"
    /\ last.dispatches[1].doc.postId = "p1"

\* the last handler was an endpoint that found a required field missing
ValidationFailed(l) ==
    \/ l.op = "register_token" /\ (~Truthy(l.req.userId) \/ ~Truthy(l.req.fcmToken))
    \/ l.op = "send_notification"
            /\ \/ ~Truthy(l.req.toUserId) \/ ~Truthy(l.req.type)
               \/ ~Truthy(l.req.title) \/ ~Truthy(l.req.body)

\* C17: POST /register-token without userId or fcmToken, and POST
\* /send-notification without toUserId, type, title or body, answer 400 with
\* success false, make no call of sendAndLogNotification (no store read, no
\* push) and leave the Users collection and every log as they were.
C17_ValidationNoSideEffects ==
    [][ValidationFailed(last') =>
            /\ last'.status = 400
            /\ last'.success = FALSE
            /\ last'.dispatches = <<>>
            /\ users' = users
            /\ notifications' = notifications
            /\ userFollowersCache' = userFollowersCache]_vars

\* a send request for u1 that lacks only its body was answered 400
C17_Witness ==
    /\ last.op = "send_notification"
    /\ last.req.toUserId = "u1" /\ last.req.type = "custom" /\ last.req.title = "Hello"
    /\ last.req.body = Undef
    /\ last.status = 400
    /\ notifications["u1"] = EmptyObject

\* C18: POST /register-token with both fields answers 200 with success true
\* and the user's stored token is then the submitted one; when the store
\* write fails it answers 500 with success false and the Users collection is
\* as it was.
C18_RegisterToken ==
    [][(last'.op = "register_token" /\ ~ValidationFailed(last')) =>
            \/ /\ last'.status = 200 /\ last'.success
               /\ users'[last'.req.userId].exists
               /\ users'[last'.req.userId].fcmToken = last'.req.fcmToken
               /\ \A u \in DOMAIN users \ {last'.req.userId} : users'[u] = users[u]
            \/ /\ last'.status = 500 /\ ~last'.success
               /\ users' = users]_vars

\* u1 registered tokB over the token it had
C18_Witness ==
    /\ last.op = "register_token"
    /\ last.req.userId = "u1" /\ last.req.fcmToken = "tokB"
    /\ last.status = 200 /\ last.success
    /\ users["u1"].fcmToken = "tokB"

\* C19: POST /send-notification with its required fields makes one call and
\* answers 200 with success true exactly when that call wrote its record
\* (delivered or not); otherwise, also when the recipient does not exist, it
\* answers 500 with success false.
C19_SendNotificationStatus ==
    (last.op = "send_notification" /\ ~ValidationFailed(last)) =>
        /\ Len(last.dispatches) = 1
        /\ LET d == last.dispatches[1] IN
            IF d.written /\ d.doc \in Records
            THEN last.status = 200 /\ last.success
            ELSE last.status = 500 /\ ~last.success
        /\ ~last.dispatches[1].existed => last.status = 500

\* answered 200 although the push raised an error: the record is in the log
C19_Witness ==
    /\ last.op = "send_notification"
    /\ last.status = 200 /\ last.success
    /\ Len(last.dispatches) = 1
    /\ last.dispatches[1].push = "error"
    /\ last.dispatches[1].doc \in Records
    /\ last.dispatches[1].doc.delivered = FALSE

\* C20: an error raised while a listener handles a change event is caught
\* within that handler: no rejection leaves it unhandled, and the process
\* goes on serving the feeds.
C20_ListenerErrorsCaught ==
    last.error = "none" /\ last.op # "exited"

\* the handlers that may dispatch, and the records a handler's dispatches
\* wrote
EndpointOps == {"send_notification", "test_notification"}

ListenerOps == {"review_added", "comment_added", "review_modified", "post_modified",
                "user_modified"}

WrittenBy(l) == {i \in DOMAIN l.dispatches : l.dispatches[i].written}

\* C21: a handler dispatches at most once per rule its event matched (an
\* endpoint at most once per request), never the same call twice, also after
\* a failed push, a failed write or a missing recipient; and the log grows
\* by at most one record per dispatch that wrote.
C21_AtMostOnce ==
    [][last'.op \in EndpointOps \cup ListenerOps =>
        /\ Len(last'.dispatches) <= (IF last'.op \in EndpointOps THEN 1
                                       ELSE Len(last'.rules))
        /\ \A i, j \in DOMAIN last'.dispatches :
                i # j => last'.dispatches[i].call # last'.dispatches[j].call
        /\ TotalRecords' - TotalRecords <= Cardinality(WrittenBy(last'))]_vars

\* a like whose push failed and whose record was not written: one dispatch,
\* and nothing in the log
C21_Witness ==
    /\ last.op = "review_modified"
    /\ Len(last.dispatches) = 1
    /\ last.dispatches[1].push = "error"
    /\ ~last.dispatches[1].written
    /\ TotalRecords = 0

\* the initials URL of a sender name, "U" standing for an empty name
InitialsOf(senderName) ==
    InitialsAvatarUrl(ToUpperCase(CharAt0(IF Truthy(senderName) THEN senderName ELSE "U")))

\* C22: when the sender avatar of a call is empty, the avatar of the record
\* written and the avatar of the payload sent are both the initials URL of
\* the sender name.
C22_AvatarFallback ==
    \A d \in Dispatches :
        ~Truthy(Get(d.call.data, "senderAvatar")) =>
            /\ d.written => d.doc.senderAvatar = InitialsOf(Get(d.call.data, "senderName"))
            /\ d.attempted =>
                    d.message.data.senderAvatar = InitialsOf(Get(d.call.data, "senderName"))

\* C26: the sender of a like or follow notification is the first member of
\* the list after the change that the list before the change does not hold.
C26_FirstNewMember ==
    \A d \in Dispatches :
        /\ last.op \in {"review_modified", "post_modified"} =>
                Get(d.call.data, "senderId") = FindNotIn(last.req.likes, last.req.before)
        /\ last.op = "user_modified" =>
                Get(d.call.data, "senderId") = FindNotIn(last.req.followers, last.req.before)

\* C28: a like whose liker has no user record dispatches nothing.
C28_LikerNotFoundSuppressed ==
    (/\ last.op \in {"review_modified", "post_modified"}
     /\ last.rules # <<>>
     /\ ~users[last.rules[1].actor].exists)
        => last.dispatches = <<>>

\* the dispatches of a handler that returned true for recipient u
Succeeded(l, u) ==
    {i \in DOMAIN l.dispatches : l.dispatches[i].recipientId = u /\ l.dispatches[i].ret}

\* C31: no record of a log is deleted or overwritten, and every dispatch
\* that returns true makes its recipient's log one record longer.
C31_LogAppendOnly ==
    [][\A u \in DOMAIN notifications :
        /\ \A n \in DOMAIN notifications[u] :
                /\ n \in DOMAIN notifications'[u]
                /\ notifications'[u][n] = notifications[u][n]
        /\ last'.op \in EndpointOps \cup ListenerOps =>
                Cardinality(DOMAIN notifications'[u]) =
                    Cardinality(DOMAIN notifications[u])
                        + Cardinality(Succeeded(last', u))]_vars

\* the six identifier fields of a record and of a payload
IdFields == {"targetId", "targetType", "postId", "placeId", "reviewId", "commentId"}

\* C32: in every dispatch that sent a push and wrote its record, the six
\* identifier fields of the payload equal those of the record.
C32_PayloadMatchesRecord ==
    \A d \in Dispatches :
        (d.attempted /\ d.written) =>
            \A k \in IdFields : d.message.data[k] = d.doc[k]

\* C33: a modified Review or Post whose change has no previous snapshot, whose
\* list is not empty and whose first member is not the author, dispatches one
\* liked notification to the author in the name of that first member.
C33_NoPreviousSnapshot ==
    (/\ last.op \in {"review_modified", "post_modified"}
     /\ last.error = "none"
     /\ last.req.previous = NoDoc
     /\ last.req.likes # <<>>
     /\ last.req.likes[1] # last.req.userId)
        => /\ Len(last.dispatches) = 1
           /\ last.dispatches[1].type =
                (IF last.op = "review_modified" THEN "review_liked" ELSE "post_liked")
           /\ last.dispatches[1].recipientId = last.req.userId
           /\ last.dispatches[1].call.data.senderId = last.req.likes[1]

\* a post whose likes did not change is modified: its author is notified of
\* the first like
C33_Witness ==
    /\ last.op = "post_modified"
    /\ last.req.previous = NoDoc
    /\ last.req.before = <<"u2">> /\ last.req.likes = <<"u2">>
    /\ last.req.userId = "u1"
    /\ Len(last.dispatches) = 1
    /\ last.dispatches[1].written
    /\ last.dispatches[1].doc.type = "post_liked"

\* the listener whose rule dispatches each notification type
RuleOp(type) ==
    CASE type = "new_review" -> "review_added"
      [] type \in {"new_comment", "comment_replied"} -> "comment_added"
      [] type = "review_liked" -> "review_modified"
      [] type = "post_liked" -> "post_modified"
      [] type = "new_follower" -> "user_modified"
      [] OTHER -> "none"

\* C34: a change of a type its callback does not test for (a removed
\* document, an added Post or User, a modified Comment, a modified Review for
\* the New Review rule, ...) sends nothing, writes nothing and leaves the
\* cache as it is; a listener notification is only ever dispatched by the
\* handler of its own rule's change type.
C34_OwnChangeTypeOnly ==
    [][/\ last'.op = "other_change" =>
            /\ last'.dispatches = <<>>
            /\ notifications' = notifications
            /\ userFollowersCache' = userFollowersCache
       /\ \A i \in DOMAIN last'.dispatches :
            last'.dispatches[i].type \in ListenerTypes =>
                last'.op = RuleOp(last'.dispatches[i].type)]_vars

\* a User document was removed
C34_Witness ==
    /\ last.op = "other_change"
    /\ last.req = [feed |-> "users", type |-> "removed"]
    /\ last.dispatches = <<>>
    /\ TotalRecords = 0

\* C35: an added Comment makes at most two dispatches, at most one
\* new_comment and at most one comment_replied; when it makes both the
\* new_comment dispatch comes first and has returned before the parent
\* comment is looked up, so it stands when that lookup rejects.
C35_CommentDispatchOrder ==
    last.op = "comment_added" =>
        /\ Len(last.dispatches) <= 2
        /\ \A i, j \in DOMAIN last.dispatches :
                /\ last.dispatches[i].type \in {"new_comment", "comment_replied"}
                /\ i < j => /\ last.dispatches[i].type = "new_comment"
                            /\ last.dispatches[j].type = "comment_replied"
        /\ last.req.rejected = "parent" =>
                /\ \A d \in Dispatches : d.type = "new_comment"
                /\ (/\ Len(last.rules) = 1
                    /\ last.rules[1].actor # last.rules[1].recipient)
                        => Len(last.dispatches) = 1

\* a reply under a review: the author of the review and the author of the
\* parent comment each got a record, in that order
C35_Witness ==
    /\ last.op = "comment_added"
    /\ Len(last.dispatches) = 2
    /\ last.dispatches[1].type = "new_comment" /\ last.dispatches[1].written
    /\ last.dispatches[2].type = "comment_replied" /\ last.dispatches[2].written

\* C37: a successful POST /register-token leaves the user's document
\* existing with the submitted token, no other request or event changes a
\* token, and a dispatch to a user whose document holds a token attempts the
\* push with that token and writes its record unless the set throws.
C37_RegisterThenDispatch ==
    [][/\ (last'.op = "register_token" /\ last'.status = 200) =>
            /\ users'[last'.req.userId].exists
            /\ users'[last'.req.userId].fcmToken = last'.req.fcmToken
       /\ last'.op # "register_token" => users' = users
       /\ \A i \in DOMAIN last'.dispatches :
            LET d == last'.dispatches[i] IN
            (/\ d.recipientId \in DOMAIN users
             /\ d.existed
             /\ Truthy(users[d.recipientId].fcmToken))
                => /\ d.attempted
                   /\ d.token = users[d.recipientId].fcmToken
                   /\ ~d.fault => (d.written /\ d.ret)]_vars

\* u3, who had no document, registered tokB and was then sent a notification
C37_Witness ==
    /\ last.op \in EndpointOps \cup ListenerOps
    /\ Len(last.dispatches) = 1
    /\ last.dispatches[1].recipientId = "u3"
    /\ last.dispatches[1].attempted
    /\ last.dispatches[1].token = "tokB"
    /\ last.dispatches[1].written
    /\ "n1" \in DOMAIN notifications["u3"]

\* C38: a successful POST /register-token leaves the other fields of the
\* user's document, every other user's document, every notification log and
\* the followers cache as they were.
C38_RegisterTokenFrame ==
    [][(last'.op = "register_token" /\ last'.status = 200) =>
            /\ users'[last'.req.userId].name = users[last'.req.userId].name
            /\ \A u \in DOMAIN users \ {last'.req.userId} : users'[u] = users[u]
            /\ notifications' = notifications
            /\ userFollowersCache' = userFollowersCache]_vars

\* u1 registered a new token and kept its name
C38_Witness ==
    /\ last.op = "register_token" /\ last.status = 200
    /\ last.req.userId = "u1"
    /\ users["u1"] = [exists |-> TRUE, fcmToken |-> "tokB", name |-> "alice"]

(***************************************************************************)
(* Specification of the asynchronous handlers.  One document is watched:   *)
(* the User document of FeedUser (followers) or the Review r1 of FeedUser  *)
(* (likes).  Its modified changes are delivered in commit order; each      *)
(* starts a callback (docChanges().forEach(async change => ...)) that runs *)
(* to its first await and is resumed when the awaited call returns, so the *)
(* callbacks of successive changes interleave at their awaits.  Store and  *)
(* push calls return (the store with success, the push with either         *)
(* outcome); a subscription may fail.                                      *)
(***************************************************************************)
\* the subscriptions registered with a second argument (lines 541-543)
HasErrorCallback(feed) == feed = "users"

FeedUser == "u1"

FeedOf(kind) == IF kind = "user" THEN "users" ELSE "reviews_likes"

\* the followers or likes lists a change may carry
FeedLists == {<<>>, <<"u2">>, <<"u2", "u3">>, <<"u2", "u3", "u1">>}

\* the modified changes of one run, the subscriptions that may fail in it
MaxFeedEvents == 2

MaxFeedFailures == 1

\* the document: its list before the first change; warm: a callback of this
\* process has already reached line 538 for it
FeedDocs ==
    {[kind |-> k, start |-> s, warm |-> w] :
        k \in {"user", "review"}, s \in FeedLists, w \in BOOLEAN}

FeedQueues == UNION {[1..n -> FeedLists] : n \in 1..MaxFeedEvents}

FeedInit ==
    /\ users = [u \in UserIds |->
                    CASE u = "u1" -> [exists |-> TRUE, fcmToken |-> "tokA",
                                      name |-> ProfileName(u)]
                      [] u = "u2" -> [exists |-> TRUE, fcmToken |-> Undef,
                                      name |-> ProfileName(u)]
                      [] OTHER -> [exists |-> FALSE, fcmToken |-> Undef, name |-> Undef]]
    /\ notifications = [u \in UserIds |-> EmptyObject]
    /\ last = Idle
    /\ rcIn = NoResult
    /\ rcOnce = NoResult
    /\ rcTwice = NoResult
    /\ rcPhase = 0
    /\ fdDoc \in {d \in FeedDocs : d.kind = "review" => ~d.warm}
    /\ fdQueue \in FeedQueues
    /\ fdTasks = <<>>
    /\ fdOut = <<>>
    /\ fdSubs = [f \in Feeds |-> "listening"]
    /\ fdLogged = {}
    /\ userFollowersCache = IF fdDoc.kind = "user" /\ fdDoc.warm
                            THEN cacheSet(EmptyObject, FeedUser, Len(fdDoc.start))
                            ELSE EmptyObject

\* what the dispatch of a callback does after each outcome of its push (the
\* users do not change while the callbacks run; the notification id is
\* drawn when the record is set)
FeedOutcomes(calls) ==
    IF calls = <<>> THEN EmptyObject
    ELSE [push \in {"ok", "error"} |->
            sendAndLogNotification(users, notifications, calls[1],
                                   [fault |-> "none", push |-> push,
                                    msgId |-> IF push = "ok" THEN "msg1" ELSE "",
                                    nid |-> ""])]

\* the callback of a change, from its start to its first await (lines
\* 433-442, 506-519) or, when it dispatches nothing, to its end
FeedTask(list, before, previous) ==
    LET calls == IF fdDoc.kind = "user"
                 THEN newFollowerCalls(users, userFollowersCache, FeedUser, list)
                 ELSE reviewLikeCalls(users, "r1", [userId |-> FeedUser, placeId |-> "pl1"],
                                      list, previous)
    IN  [kind |-> fdDoc.kind, list |-> list, before |-> before, previous |-> previous,
         cold |-> FeedUser \notin DOMAIN userFollowersCache,
         oldCount |-> oldFollowerCount(userFollowersCache, FeedUser),
         alone |-> \A i \in DOMAIN fdTasks : fdTasks[i].pc = "done",
         calls |-> calls,
         outcomes |-> FeedOutcomes(calls),
         push |-> "none",
         pc |-> IF calls = <<>> THEN "done" ELSE "lookup"]

\* the next modified change is delivered and its callback starts
FeedDeliver ==
    /\ fdQueue # <<>>
    /\ fdSubs[FeedOf(fdDoc.kind)] = "listening"
    /\ LET list == Head(fdQueue)
           before == IF fdTasks = <<>> THEN fdDoc.start ELSE fdTasks[Len(fdTasks)].list
       IN  \E previous \in IF fdDoc.kind = "user" THEN {NoDoc} ELSE Previous(before) :
            LET task == FeedTask(list, before, previous) IN
            /\ fdTasks' = Append(fdTasks, task)
            \* line 538, reached without an await when nothing is dispatched
            /\ userFollowersCache' =
                    IF fdDoc.kind = "user" /\ task.pc = "done"
                    THEN cacheSet(userFollowersCache, FeedUser, Len(list))
                    ELSE userFollowersCache
    /\ fdQueue' = Tail(fdQueue)
    /\ UNCHANGED <<users, notifications, last, rcVars, fdDoc, fdOut, fdSubs, fdLogged>>

\* lines 442, 519: the get of the liker's or follower's document returns
FeedLookup ==
    /\ \E i \in DOMAIN fdTasks :
        /\ fdTasks[i].pc = "lookup"
        /\ fdTasks' = [fdTasks EXCEPT ![i].pc = "send"]
    /\ UNCHANGED <<users, notifications, userFollowersCache, last, rcVars,
                   fdDoc, fdQueue, fdOut, fdSubs, fdLogged>>

\* lines 60-155: the recipient is read and the push is sent; it succeeds or
\* fails
FeedSend ==
    /\ \E i \in DOMAIN fdTasks, push \in {"ok", "error"} :
        /\ fdTasks[i].pc = "send"
        /\ fdTasks' = [fdTasks EXCEPT ![i].pc = "set", ![i].push = push]
        /\ fdOut' = Append(fdOut, [what |-> "push", task |-> i,
                                   senderId |-> fdTasks[i].calls[1].data.senderId])
    /\ UNCHANGED <<users, notifications, userFollowersCache, last, rcVars,
                   fdDoc, fdQueue, fdSubs, fdLogged>>

\* lines 157-180: the record is set
FeedSet ==
    /\ \E i \in DOMAIN fdTasks :
        /\ fdTasks[i].pc = "set"
        /\ LET nid == FreshId(notifications[FeedUser])
               res == [fdTasks[i].outcomes[fdTasks[i].push] EXCEPT
                            !.nid = nid, !.doc = [@ EXCEPT !.id = nid]]
               logs == setNotification(notifications, res)
           IN  /\ notifications' = logs
               /\ fdOut' = IF logs # notifications
                           THEN Append(fdOut, [what |-> "record", task |-> i,
                                               senderId |-> res.doc.senderId])
                           ELSE fdOut
        /\ fdTasks' = [fdTasks EXCEPT ![i].pc = IF fdTasks[i].kind = "user" THEN "cache"
                                                 ELSE "done"]
    /\ UNCHANGED <<users, userFollowersCache, last, rcVars, fdDoc, fdQueue, fdSubs, fdLogged>>

\* line 538, after the awaited dispatch has returned
FeedCacheSet ==
    /\ \E i \in DOMAIN fdTasks :
        /\ fdTasks[i].pc = "cache"
        /\ userFollowersCache' = cacheSet(userFollowersCache, FeedUser, Len(fdTasks[i].list))
        /\ fdTasks' = [fdTasks EXCEPT ![i].pc = "done"]
    /\ UNCHANGED <<users, notifications, last, rcVars, fdDoc, fdQueue, fdOut, fdSubs, fdLogged>>

\* a subscription fails: its error callback, when it has one, logs the
\* failure; nothing subscribes again
FeedFails ==
    /\ Cardinality({f \in Feeds : fdSubs[f] = "failed"}) < MaxFeedFailures
    /\ \E f \in Feeds :
        /\ fdSubs[f] = "listening"
        /\ fdSubs' = [fdSubs EXCEPT ![f] = "failed"]
        /\ fdLogged' = IF HasErrorCallback(f) THEN fdLogged \cup {f} ELSE fdLogged
    /\ UNCHANGED <<users, notifications, userFollowersCache, last, rcVars,
                   fdDoc, fdQueue, fdTasks, fdOut>>

FeedStep == FeedLookup \/ FeedSend \/ FeedSet \/ FeedCacheSet

FeedNext == FeedDeliver \/ FeedStep \/ FeedFails

SpecFeed == FeedInit /\ [][FeedNext]_vars

\* no subscription fails, and the callbacks that were started are resumed
\* when what they await returns
FeedNextListening == FeedDeliver \/ FeedStep

SpecFeedFair == FeedInit /\ [][FeedNextListening]_vars /\ WF_vars(FeedStep)

(***************************************************************************)
(* Claims about the asynchronous handlers (checked under SpecFeed)         *)
(***************************************************************************)
\* the positions of fdOut that hold a push, a record, of callback i
OutOf(what, i) == {k \in DOMAIN fdOut : fdOut[k].what = what /\ fdOut[k].task = i}

Members(l) == {l[i] : i \in DOMAIN l}

\* C23: the pushes and the records of two changes of one document are made
\* in the order the changes were delivered.
C23_PerDocumentOrder ==
    \A a, b \in DOMAIN fdOut :
        (a < b /\ fdOut[a].what = fdOut[b].what) => fdOut[a].task <= fdOut[b].task

\* C24: the follower callback compares with the cache as it is when the
\* callback starts, no step before its last writes the cache, and the cache
\* changes only when a callback ends, to the length that callback saw.
C24_CacheReadAtStartWrittenAtEnd ==
    [][/\ (fdDoc.kind = "user" /\ Len(fdTasks') > Len(fdTasks)) =>
            fdTasks'[Len(fdTasks')].oldCount =
                (IF FeedUser \in DOMAIN userFollowersCache
                 THEN userFollowersCache[FeedUser] ELSE 0)
       /\ \A i \in DOMAIN fdTasks :
            (fdTasks[i].pc \in {"lookup", "send", "set"} /\ fdTasks'[i].pc # fdTasks[i].pc)
                => userFollowersCache' = userFollowersCache
       /\ userFollowersCache' # userFollowersCache =>
            \E i \in DOMAIN fdTasks' :
                /\ fdTasks'[i].pc = "done"
                /\ i \in DOMAIN fdTasks => fdTasks[i].pc = "cache"
                /\ userFollowersCache'[FeedUser] = Len(fdTasks'[i].list)]_vars

\* one follower was added to a warm, empty list and the document was
\* modified once more without its followers changing: the two callbacks
\* overlapped, compared with the same count, and each wrote a record
C24_Witness ==
    /\ fdDoc = [kind |-> "user", start |-> <<>>, warm |-> TRUE]
    /\ Len(fdTasks) = 2
    /\ fdTasks[1].list = <<"u2">> /\ fdTasks[2].list = <<"u2">>
    /\ fdTasks[1].oldCount = 0 /\ fdTasks[2].oldCount = 0
    /\ ~fdTasks[2].alone
    /\ OutOf("record", 1) # {} /\ OutOf("record", 2) # {}
    /\ \A k \in DOMAIN fdOut : fdOut[k].senderId = "u2"

\* every callback before callback j had ended when the next one started
NoOverlap(j) == \A i \in 1..j : fdTasks[i].alone

\* C25: with an empty cache the first modified change of a user whose
\* followers list is not empty dispatches new_follower to the user for the
\* last follower (unless that follower is the user), whether or not the list
\* changed; when the callbacks do not overlap, a later change whose list is
\* not longer than that of the change before it dispatches nothing.
C25_ColdCacheOnce ==
    fdDoc.kind = "user" =>
        \A j \in DOMAIN fdTasks :
            /\ (/\ j = 1 /\ ~fdDoc.warm
                /\ fdTasks[j].list # <<>>
                /\ fdTasks[j].list[Len(fdTasks[j].list)] # FeedUser)
                  => /\ Len(fdTasks[j].calls) = 1
                     /\ fdTasks[j].calls[1].type = "new_follower"
                     /\ fdTasks[j].calls[1].recipientId = FeedUser
            /\ (/\ j > 1 /\ NoOverlap(j)
                /\ Len(fdTasks[j].list) <= Len(fdTasks[j - 1].list))
                  => fdTasks[j].calls = <<>>

\* a fresh process: the first change leaves the followers as they were and
\* is notified; the second, after the first callback ended, is not
C25_Witness ==
    /\ fdDoc = [kind |-> "user", start |-> <<"u2">>, warm |-> FALSE]
    /\ Len(fdTasks) = 2
    /\ fdTasks[1].list = <<"u2">> /\ fdTasks[2].list = <<"u2">>
    /\ OutOf("record", 1) # {}
    /\ fdTasks[2].alone
    /\ fdTasks[2].calls = <<>> /\ fdTasks[2].pc = "done"
    /\ OutOf("record", 2) = {}

\* C27: a change that adds more than one member to the list dispatches at
\* most one notification, and its sender is one of the members added.
C27_MultiElementGrowth ==
    \A i \in DOMAIN fdTasks :
        (/\ Members(fdTasks[i].before) \subseteq Members(fdTasks[i].list)
         /\ Len(fdTasks[i].list) >= Len(fdTasks[i].before) + 2)
            => /\ Len(fdTasks[i].calls) <= 1
               /\ fdTasks[i].calls # <<>> =>
                    fdTasks[i].calls[1].data.senderId
                        \in Members(fdTasks[i].list) \ Members(fdTasks[i].before)

\* C29: the failure of any subscription is received and logged by an error
\* callback of the program.
C29_FeedFailuresLogged ==
    \A f \in Feeds : fdSubs[f] = "failed" => f \in fdLogged

\* C30: every change whose callback dispatches (the recipient's user record
\* exists) eventually has its record in the recipient's log, whatever the
\* push did.
C30_EventuallyLogged ==
    \A i \in 1..MaxFeedEvents :
        (i \in DOMAIN fdTasks /\ fdTasks[i].calls # <<>>)
            ~> (\E k \in OutOf("record", i) :
                    \E n \in DOMAIN notifications[FeedUser] :
                        notifications[FeedUser][n].senderId = fdOut[k].senderId)

\* the push of a like failed and its record is in the log
C30_Witness ==
    /\ fdDoc.kind = "review"
    /\ Len(fdTasks) >= 1
    /\ fdTasks[1].push = "error"
    /\ OutOf("record", 1) # {}
    /\ \E n \in DOMAIN notifications[FeedUser] :
            /\ notifications[FeedUser][n].type = "review_liked"
            /\ notifications[FeedUser][n].delivered = FALSE

\* every callback started has ended
AllEnded == \A i \in DOMAIN fdTasks : fdTasks[i].pc = "done"

RcIdValues == {Undef, "", "x", "y"}
RcTypeValues == {Undef, "", "post", "place", "review", "comment", "user"}

RcInputs ==
    [targetId : RcIdValues, targetType : RcTypeValues, postId : RcIdValues,
     placeId : RcIdValues, reviewId : RcIdValues, commentId : RcIdValues]

RcInit ==
    /\ users = EmptyObject
    /\ notifications = EmptyObject
    /\ userFollowersCache = EmptyObject
    /\ last = Idle
    /\ rcIn \in RcInputs
    /\ rcOnce = NoResult
    /\ rcTwice = NoResult
    /\ rcPhase = 0
    /\ FeedQuiet

RcApply ==
    /\ rcPhase = 0
    /\ rcOnce' = reconcile(rcIn)
    /\ rcPhase' = 1
    /\ UNCHANGED <<rcIn, rcTwice>>
    /\ UNCHANGED <<sysVars, fdVars>>

RcApplyAgain ==
    /\ rcPhase = 1
    /\ rcTwice' = reconcile(rcOnce)
    /\ rcPhase' = 2
    /\ UNCHANGED <<rcIn, rcOnce>>
    /\ UNCHANGED <<sysVars, fdVars>>

RcNext == RcApply \/ RcApplyAgain

SpecReconcile == RcInit /\ [][RcNext]_vars

(***************************************************************************)
(* Claims about the reconciliation step (checked under SpecReconcile)      *)
(***************************************************************************)
\* the raw value of a field as the step reads it (`data.x || ''`)
RcRaw(key) == OrEmpty(rcIn[key])

\* C8: forward-fill.  For each kind k of post, place, review, comment: when
\* targetType = k, targetId is non-empty and the typed id of kind k is empty,
\* the reconciled typed id of kind k equals targetId; a typed id that was
\* given non-empty is left as given.
C8_ForwardFill ==
    rcPhase >= 1 =>
        \A i \in DOMAIN Kinds :
            LET key == TypedKey(Kinds[i]) IN
            /\ (RcRaw("targetType") = Kinds[i] /\ RcRaw("targetId") # "" /\ RcRaw(key) = "")
                    => rcOnce[key] = RcRaw("targetId")
            /\ RcRaw(key) # "" => rcOnce[key] = RcRaw(key)

\* a forward-fill happened: review was named by targetType, and filled
C8_Witness ==
    /\ rcPhase = 1
    /\ RcRaw("targetType") = "review" /\ RcRaw("targetId") = "x" /\ RcRaw("reviewId") = ""
    /\ RcRaw("postId") = "y"
    /\ rcOnce.reviewId = "x" /\ rcOnce.postId = "y"

\* the first kind, in the order post > place > review > comment, whose typed
\* id is given non-empty (0 when none is)
RcFirstTyped ==
    IF \E i \in DOMAIN Kinds : RcRaw(TypedKey(Kinds[i])) # ""
    THEN CHOOSE i \in DOMAIN Kinds :
            /\ RcRaw(TypedKey(Kinds[i])) # ""
            /\ \A j \in 1..(i - 1) : RcRaw(TypedKey(Kinds[j])) = ""
    ELSE 0

\* C9: back-fill.  When targetId is empty and some typed id is non-empty, the
\* reconciled targetId is the first non-empty typed id in the order
\* post > place > review > comment, and targetType is its kind.
C9_BackFillEveryKind ==
    (rcPhase >= 1 /\ RcRaw("targetId") = "" /\ RcFirstTyped # 0) =>
        /\ rcOnce.targetId = RcRaw(TypedKey(Kinds[RcFirstTyped]))
        /\ rcOnce.targetType = Kinds[RcFirstTyped]

\* C10: idempotence.  Reconciling the output of the reconciliation yields the
\* same six fields.
C10_Idempotent == rcPhase = 2 => rcTwice = rcOnce

\* the step was applied twice to an input that it changed both by a
\* forward-fill and by a back-fill of another input
C10_Witness ==
    /\ rcPhase = 2
    /\ rcOnce # rawIds(rcIn)
    /\ RcRaw("targetId") = "" /\ RcRaw("targetType") = "review" /\ RcRaw("postId") = "x"
    /\ rcTwice.targetId = "x" /\ rcTwice.targetType = "post"

\* C11: round trip.  Given only a non-empty postId (targetId, targetType and
\* the other typed ids empty or absent), the reconciliation has targetId =
\* postId, targetType = "post", and placeId, reviewId and commentId empty.
C11_PostIdRoundTrip ==
    (/\ rcPhase >= 1
     /\ Truthy(rcIn.postId)
     /\ \A key \in {"targetId", "targetType", "placeId", "reviewId", "commentId"} :
            ~Truthy(rcIn[key]))
    => rcOnce = [targetId |-> rcIn.postId, targetType |-> "post", postId |-> rcIn.postId,
                 placeId |-> "", reviewId |-> "", commentId |-> ""]

\* the step was applied to data = {postId: "x"}: the other fields are absent
C11_Witness ==
    /\ rcPhase = 1
    /\ rcIn.postId = "x"
    /\ \A key \in {"targetId", "targetType", "placeId", "reviewId", "commentId"} :
            rcIn[key] = Undef
    /\ rcOnce.targetId = "x" /\ rcOnce.targetType = "post"

====
